---- MODULE Spec2Model ----
(***************************************************************************)
(* Model of src/driver/smi_stream_dev.c: the SMI streaming character       *)
(* device (stream state machine, cyclic DMA receive path, the RX/TX        *)
(* kfifo ring buffers and the file operations on top of them).             *)
(*                                                                         *)
(* One action models one handler run to completion.  What the hardware and *)
(* the kernel answer during a handler (register reads, dmaengine results,  *)
(* interruptible lock acquisition, vmalloc) is drawn nondeterministically. *)
(* User buffers are valid.                                                 *)
(***************************************************************************)
EXTENDS Integers, Sequences, FiniteSets, TLC

VARIABLES
    inst,                 \* struct bcm2835_smi_dev_instance (the fields the code uses)
    hw,                   \* the SMI peripheral and its DMA channel, as programmed
    is_open,              \* the device file is open (at least one handle)
    handles,              \* number of open handles on the device file
    fifo_mtu_multiplier,  \* module parameter
    addr_dir_offset,      \* module parameter
    addr_ch_offset,       \* module parameter
    role,                 \* what the user process does with the device in this run
    last,                 \* the handler that ran last: arguments, result, hardware commands issued
    hist,                 \* history of the session, for the scenario properties
    thr                   \* where each thread stands inside its handler, in the runs
                          \* that follow handlers step by step

vars == <<inst, hw, is_open, handles, fifo_mtu_multiplier, addr_dir_offset, addr_ch_offset, role, last, hist, thr>>

(***************************************************************************)
(* Bounds of the model                                                     *)
(***************************************************************************)
\* bytes in one chunk (a quarter of the DMA bounce buffer), scaled down
ChunkBytes == 3
\* receive completions delivered per armed transfer
MaxChunks == 7
\* missed chunks counted per armed transfer
MaxMissed == 2
\* largest byte count passed to read() and write()
MaxCount == 2
\* handles open at the same time in the runs that share the device
MaxHandles == 2
\* threads calling set_state at the same time
MaxCallers == 2
\* receive completions delivered per armed transfer in the runs that follow
\* handlers step by step
MaxRaceChunks == 2
\* completions left before the 32-bit chunk index wraps, in the runs that
\* start a long way into a receive transfer
WrapLead == 5

(***************************************************************************)
(* Program constants                                                       *)
(***************************************************************************)
smi_stream_idle == 0
smi_stream_rx_channel_0 == 1
smi_stream_rx_channel_1 == 2
smi_stream_tx_channel == 3

smi_stream_dir_smi_to_device == 0
smi_stream_dir_device_to_smi == 1
smi_stream_channel_0 == 0
smi_stream_channel_1 == 1

EAGAIN == 11
EINTR == 4
ENOMEM == 12
EINVAL == 22
ENOTTY == 25

\* poll event bits (linux/poll.h)
POLLIN == 1
POLLOUT == 4
POLLRDNORM == 64
POLLWRNORM == 256

\* defaults of the module parameters
DefaultDirOffset == 2
DefaultChOffset == 3

\* the cyclic DMA buffer: four chunks
DMA_BOUNCE_BUFFER_SIZE == 4 * ChunkBytes

ChunkSize == DMA_BOUNCE_BUFFER_SIZE \div 4

\* values of fifo_mtu_multiplier the module is loaded with (probe accepts 2..32)
LoadMultipliers == {2}

\* arguments given to SET_FIFO_MULT: the ends of the accepted range 2..20 and
\* one value outside on each side
MultArgs == {1, 2, 20, 21}

\* arguments given to SET_ADDR_DIR_OFFSET and SET_ADDR_CH_OFFSET: the ends of
\* the accepted range -1..4, the two defaults and one value outside on each side
OffsetArgs == {-2, -1, 2, 3, 4, 5}

\* arguments given to the SET_STREAM_STATUS control operation
StateArgs == {smi_stream_idle, smi_stream_rx_channel_0, smi_stream_rx_channel_1,
              smi_stream_tx_channel}

RxStates == {smi_stream_rx_channel_0, smi_stream_rx_channel_1}

Min(a, b) == IF a < b THEN a ELSE b
Max(a, b) == IF a > b THEN a ELSE b

(***************************************************************************)
(* kfifo (linux/kfifo.h), byte elements.  in/out are abstracted to the     *)
(* queue of stored bytes; size is the power of two kfifo_init rounds to.   *)
(***************************************************************************)
RECURSIVE rounddown_pow_of_two(_)
rounddown_pow_of_two(n) == IF n <= 1 THEN 1 ELSE 2 * rounddown_pow_of_two(n \div 2)

kfifo_init(size) == [size |-> rounddown_pow_of_two(size), buf |-> <<>>]

kfifo_len(f) == Len(f.buf)

kfifo_avail(f) == f.size - Len(f.buf)

kfifo_is_empty(f) == Len(f.buf) = 0

kfifo_is_full(f) == Len(f.buf) = f.size

\* kfifo_in / kfifo_from_user: stores as much of data as fits
kfifo_in(f, data) ==
    LET l == Min(Len(data), kfifo_avail(f))
    IN [f EXCEPT !.buf = @ \o SubSeq(data, 1, l)]

\* kfifo_out / kfifo_to_user: number of bytes taken for a request of n
kfifo_out_len(f, n) == Min(n, kfifo_len(f))

kfifo_out(f, n) == [f EXCEPT !.buf = SubSeq(@, kfifo_out_len(f, n) + 1, Len(@))]

\* variant: the reset leaves the stored bytes in place
kfifo_reset_keeps(f) == f

kfifo_reset(f) == [f EXCEPT !.buf = <<>>]

kfifo_reset_out(f) == [f EXCEPT !.buf = <<>>]

(***************************************************************************)
(* calc_address_from_state                                                 *)
(***************************************************************************)
\* An unsigned int is held as the integer with the same 32 bits in two's
\* complement: bit 31 alone is the least integer.
Bit31 == (-2147483647) - 1

\* the low 31 bits of a word
Low31(a) == IF a < 0 THEN a - Bit31 ELSE a

\* What a shift by a negative amount may produce.  C leaves it undefined; the
\* shift instruction either takes the low byte of the amount (the bit is
\* shifted out, 0) or the amount modulo 32 (bit 31).
UndefinedShift == {0, Bit31}

\* v << n for an offset n in -1..4; ub is what the machine makes of a shift
\* by a negative amount (a zero value stays zero under every shift)
Shl(v, n, ub) ==
    IF n >= 0 THEN v * (2 ^ n)
    ELSE IF v = 0 THEN 0 ELSE ub

\* bitwise or of two unsigned values
RECURSIVE BitOr(_, _)
BitOr(a, b) ==
    IF a < 0 \/ b < 0 THEN Bit31 + BitOr(Low31(a), Low31(b))
    ELSE IF a = 0 THEN b
    ELSE IF b = 0 THEN a
    ELSE (IF (a % 2 = 1) \/ (b % 2 = 1) THEN 1 ELSE 0) + 2 * BitOr(a \div 2, b \div 2)

\* variant: the channel number is left out of the RxChannel1 selector
calc_address_from_state_no_channel(st, dir_off, ch_off, ub) ==
    IF st \in {smi_stream_rx_channel_0, smi_stream_rx_channel_1}
    THEN BitOr(Shl(smi_stream_dir_device_to_smi, dir_off, ub),
               Shl(smi_stream_channel_0, ch_off, ub))
    ELSE Shl(smi_stream_dir_smi_to_device, dir_off, ub)

calc_address_from_state(st, dir_off, ch_off, ub) ==
    IF st = smi_stream_rx_channel_0
    THEN BitOr(Shl(smi_stream_dir_device_to_smi, dir_off, ub),
               Shl(smi_stream_channel_0, ch_off, ub))
    ELSE IF st = smi_stream_rx_channel_1
    THEN BitOr(Shl(smi_stream_dir_device_to_smi, dir_off, ub),
               Shl(smi_stream_channel_1, ch_off, ub))
    ELSE IF st = smi_stream_tx_channel
    THEN Shl(smi_stream_dir_smi_to_device, dir_off, ub)
    ELSE Shl(smi_stream_dir_smi_to_device, dir_off, ub)

(***************************************************************************)
(* What the environment answers during one set_state call                  *)
(*   dis_stop   smi_disable_sync in transfer_thread_stop saw ENABLE go low *)
(*   active     smi_is_active after the stop                               *)
(*   dis_init   smi_disable_sync at the head of transfer_thread_init       *)
(*   prog_ok    smi_init_programmed_transfer saw ACTIVE go low in time     *)
(*   dis_err    smi_disable_sync after a failed programmed transfer        *)
(*   desc_ok    the cyclic descriptor was prepared and submitted           *)
(*   intr       mutex_lock_interruptible(write_lock) was interrupted       *)
(*   shl        what a shift by a negative offset produced                 *)
(***************************************************************************)
AllOutcomes ==
    [dis_stop : BOOLEAN, active : BOOLEAN, dis_init : BOOLEAN, prog_ok : BOOLEAN,
     dis_err : BOOLEAN, desc_ok : BOOLEAN, intr : BOOLEAN, shl : {0}]

GoodOutcome ==
    [dis_stop |-> TRUE, active |-> FALSE, dis_init |-> TRUE, prog_ok |-> TRUE,
     dis_err |-> TRUE, desc_ok |-> TRUE, intr |-> FALSE, shl |-> 0]

\* the answers a call to new_state from state cur consults; the others stay at
\* their GoodOutcome value so that no call is enumerated twice
Consulted(e, new_state, cur) ==
    LET same == new_state = cur
        init == ~same /\ ~e.active /\ new_state # smi_stream_idle
                      /\ new_state # smi_stream_tx_channel
    IN /\ same => (e.dis_stop /\ ~e.active)
       /\ (~init) => e.dis_init
       /\ (~(init /\ e.dis_init)) => e.prog_ok
       /\ (~(init /\ e.dis_init /\ ~e.prog_ok)) => e.dis_err
       /\ (~(init /\ e.dis_init /\ e.prog_ok)) => e.desc_ok
       /\ (~(~same /\ ~e.active /\ new_state = smi_stream_tx_channel)) => ~e.intr

OutcomesSame == {e \in AllOutcomes : Consulted(e, smi_stream_idle, smi_stream_idle)}

OutcomesIdle == {e \in AllOutcomes : Consulted(e, smi_stream_idle, smi_stream_rx_channel_0)}

OutcomesTx == {e \in AllOutcomes : Consulted(e, smi_stream_tx_channel, smi_stream_idle)}

OutcomesRx == {e \in AllOutcomes : Consulted(e, smi_stream_rx_channel_0, smi_stream_idle)}

Outcomes(new_state, cur) ==
    IF new_state = cur THEN OutcomesSame
    ELSE IF new_state = smi_stream_idle THEN OutcomesIdle
    ELSE IF new_state = smi_stream_tx_channel THEN OutcomesTx
    ELSE OutcomesRx

\* one hardware access, as recorded in the log of a handler
Ev(op, val) == [op |-> op, val |-> val]

(***************************************************************************)
(* Hardware helpers.  m is the machine during a handler:                   *)
(*   [inst, hw, log, ret]                                                  *)
(***************************************************************************)
bcm2835_smi_set_address(m, addr) ==
    [m EXCEPT !.hw.address = addr, !.log = Append(@, Ev("set_address", addr))]

\* clears ENABLE and busy-waits for it to read low; ok is whether it did
smi_disable_sync(m, ok) ==
    [m EXCEPT !.hw.enable = ~ok, !.log = Append(@, Ev("disable", 0))]

smi_disable_sync_ret(ok) == IF ok THEN 0 ELSE -1

\* wake_up_interruptible(&inst->poll_event)
wake_up_interruptible(m) == [m EXCEPT !.log = Append(@, Ev("wake_up", 0))]

smi_refresh_dma_command(m) ==
    [m EXCEPT !.inst.count_since_refresh = 0, !.log = Append(@, Ev("refresh", ChunkSize))]

\* programs the transfer count, sets ENABLE, waits for ACTIVE to drop
smi_init_programmed_transfer(m, ok) ==
    [m EXCEPT !.hw.enable = TRUE, !.log = Append(@, Ev("programmed", ChunkSize))]

smi_init_programmed_transfer_ret(ok) == IF ok THEN 0 ELSE -2

\* dmaengine_prep_dma_cyclic + dmaengine_submit, then dma_async_issue_pending:
\* the descriptor is armed for the address lines selected at that moment
stream_smi_dma_init_cyclic(m, ok) ==
    IF ok
    THEN [m EXCEPT !.hw.dma = Append(@, [dir |-> "rx", addr |-> m.hw.address]),
                   !.log = Append(@, Ev("issue", m.hw.address))]
    ELSE [m EXCEPT !.log = Append(@, Ev("submit_failed", 0))]

\* variant: a failed descriptor submission is not reported
transfer_thread_init_hides_submit(m, e) ==
    LET m1 == [m EXCEPT !.inst.transfer_thread_running = TRUE]
        m2 == smi_disable_sync(m1, e.dis_init)
    IN IF smi_disable_sync_ret(e.dis_init) # 0
       THEN [m2 EXCEPT !.ret = -1]
       ELSE
         LET m3 == [m2 EXCEPT !.hw.callback_sem = 0]
             m4 == smi_init_programmed_transfer(m3, e.prog_ok)
         IN IF smi_init_programmed_transfer_ret(e.prog_ok) # 0
            THEN [smi_disable_sync(m4, e.dis_err) EXCEPT !.ret = -2]
            ELSE
              LET m5 == [m4 EXCEPT !.inst.current_read_chunk = 0,
                                   !.inst.counter_missed = 0]
                  m6 == stream_smi_dma_init_cyclic(m5, e.desc_ok)
                  m7 == smi_refresh_dma_command(m6)
              IN [m7 EXCEPT !.ret = 0]

\* variant: the chunk counters are not cleared when a transfer is armed
transfer_thread_init_keeps_counters(m, e) ==
    LET m1 == [m EXCEPT !.inst.transfer_thread_running = TRUE]
        m2 == smi_disable_sync(m1, e.dis_init)
    IN IF smi_disable_sync_ret(e.dis_init) # 0
       THEN [m2 EXCEPT !.ret = -1]
       ELSE
         LET m3 == [m2 EXCEPT !.hw.callback_sem = 0]
             m4 == smi_init_programmed_transfer(m3, e.prog_ok)
         IN IF smi_init_programmed_transfer_ret(e.prog_ok) # 0
            THEN [smi_disable_sync(m4, e.dis_err) EXCEPT !.ret = -2]
            ELSE
              LET m6 == stream_smi_dma_init_cyclic(m4, e.desc_ok)
                  m7 == smi_refresh_dma_command(m6)
              IN [m7 EXCEPT !.ret = IF e.desc_ok THEN 0 ELSE 1]

transfer_thread_init(m, e) ==
    LET m1 == [m EXCEPT !.inst.transfer_thread_running = TRUE]
        m2 == smi_disable_sync(m1, e.dis_init)
    IN IF smi_disable_sync_ret(e.dis_init) # 0
       THEN [m2 EXCEPT !.ret = -1]
       ELSE
         LET m3 == [m2 EXCEPT !.hw.callback_sem = 0]
             m4 == smi_init_programmed_transfer(m3, e.prog_ok)
         IN IF smi_init_programmed_transfer_ret(e.prog_ok) # 0
            THEN [smi_disable_sync(m4, e.dis_err) EXCEPT !.ret = -2]
            ELSE
              LET m5 == [m4 EXCEPT !.inst.current_read_chunk = 0,
                                   !.inst.counter_missed = 0]
                  m6 == stream_smi_dma_init_cyclic(m5, e.desc_ok)
                  m7 == smi_refresh_dma_command(m6)
              IN [m7 EXCEPT !.ret = IF e.desc_ok THEN 0 ELSE 1]

\* variant: the running DMA transfer is not terminated
transfer_thread_stop_no_terminate(m, e) ==
    LET m2 == smi_disable_sync(m, e.dis_stop)
        m3 == [m2 EXCEPT !.log = Append(@, Ev("set_regs", 0))]
    IN [m3 EXCEPT !.inst.transfer_thread_running = FALSE,
                  !.inst.reader_waiting_sema = FALSE]

transfer_thread_stop(m, e) ==
    LET m1 == [m EXCEPT !.hw.dma = <<>>, !.log = Append(@, Ev("terminate", 0))]
        m2 == smi_disable_sync(m1, e.dis_stop)
        m3 == [m2 EXCEPT !.log = Append(@, Ev("set_regs", 0))]
    IN [m3 EXCEPT !.inst.transfer_thread_running = FALSE,
                  !.inst.reader_waiting_sema = FALSE]

(***************************************************************************)
(* set_state.  The caller holds no lock; a caller that finds state_lock    *)
(* taken spins and never returns, so the handlers that call set_state are  *)
(* guarded by ~inst.state_lock.  dir_off/ch_off are the module parameters. *)
(***************************************************************************)
\* set_state, lines 231-248: stop the running transfer; Busy if the peripheral
\* is still active, else the state becomes Idle and the Idle selector is programmed
set_state_stop(m, new_state, e, dir_off, ch_off) ==
    LET idle_address == calc_address_from_state(smi_stream_idle, dir_off, ch_off, e.shl)
        s0 == transfer_thread_stop(m, e)
        s1 == [s0 EXCEPT !.log = Append(@, Ev("is_active", IF e.active THEN 1 ELSE 0))]
    IN IF e.active
       THEN [s1 EXCEPT !.ret = -EAGAIN]
       ELSE [bcm2835_smi_set_address(
                 [s1 EXCEPT !.inst.state = smi_stream_idle], idle_address)
               EXCEPT !.ret = 0]

\* set_state, lines 258-281: program the selector of new_state; for TxChannel
\* reset the TX ring under write_lock, set writeable and wake the waiters
set_state_select(m, new_state, e, dir_off, ch_off) ==
    LET new_address == calc_address_from_state(new_state, dir_off, ch_off, e.shl)
        s3 == bcm2835_smi_set_address(m, new_address)
    IN IF new_state = smi_stream_tx_channel
       THEN IF e.intr
            THEN [s3 EXCEPT !.ret = -EINTR, !.inst.state_lock = TRUE]
            ELSE [wake_up_interruptible(
                      [s3 EXCEPT !.inst.tx_fifo = kfifo_reset(@),
                                 !.inst.writeable = TRUE])
                    EXCEPT !.ret = 0]
       ELSE s3

\* set_state, lines 282-298: arm the receive transfer; the state becomes
\* new_state if that succeeded, else the Idle selector is programmed again
set_state_arm(m, new_state, e, dir_off, ch_off) ==
    LET idle_address == calc_address_from_state(smi_stream_idle, dir_off, ch_off, e.shl)
        s4 == transfer_thread_init(m, e)
    IN IF s4.ret = 0
       THEN [s4 EXCEPT !.inst.state = new_state]
       ELSE [bcm2835_smi_set_address(s4, idle_address)
                EXCEPT !.inst.state = smi_stream_idle]

\* the branch of set_state taken when new_state differs from the current state
set_state_change(m, new_state, e, dir_off, ch_off) ==
    LET s2 == set_state_stop(m, new_state, e, dir_off, ch_off)
    IN IF s2.ret # 0 \/ new_state = smi_stream_idle
       THEN s2
       ELSE LET s3 == set_state_select(s2, new_state, e, dir_off, ch_off)
            IN IF new_state = smi_stream_tx_channel
               THEN s3
               ELSE set_state_arm(s3, new_state, e, dir_off, ch_off)

\* variant: a call for the current state programs the selector again
set_state_reprograms(m, new_state, e, dir_off, ch_off) ==
    IF new_state # m.inst.state
    THEN set_state_change(m, new_state, e, dir_off, ch_off)
    ELSE [bcm2835_smi_set_address(
              m, calc_address_from_state(new_state, dir_off, ch_off, e.shl))
           EXCEPT !.ret = 0]

set_state(m, new_state, e, dir_off, ch_off) ==
    IF new_state # m.inst.state
    THEN set_state_change(m, new_state, e, dir_off, ch_off)
    ELSE [m EXCEPT !.ret = 0]

(***************************************************************************)
(* stream_smi_read_dma_callback: one completed chunk of the cyclic receive *)
(***************************************************************************)
\* the bytes of slot (current_read_chunk % 4) of the bounce buffer: each byte
\* is represented by its position in the chunk
ChunkData(idx) == [i \in 1..ChunkSize |-> i]

\* uint32_t increment; the value is held in two's complement (see Bit31), so
\* 2^32 - 1 is -1 and its successor is 0
Inc32(c) == IF c = 2147483647 THEN Bit31 ELSE c + 1

\* variant: the remainder of a signed chunk index (C's % keeps the sign)
buffer_slot_signed(c) == IF c < 0 THEN 0 - ((0 - c) % 4) ELSE c % 4

\* current_read_chunk % 4: 2^32 is a multiple of 4, so the remainder of the
\* unsigned value is the remainder of its two's complement
buffer_slot(c) == c % 4

\* buffer_pos = &bounce.buffer[0][(DMA_BOUNCE_BUFFER_SIZE/4) * slot]
buffer_pos(m) ==
    [m EXCEPT !.log = Append(@, Ev("slot", buffer_slot(m.inst.current_read_chunk)))]

\* variant: a chunk is stored as soon as one byte is free
stream_smi_read_dma_callback_partial(m) ==
    LET m1 == buffer_pos(smi_refresh_dma_command(m))
        m2 == IF kfifo_avail(m1.inst.rx_fifo) >= 1
              THEN [m1 EXCEPT !.inst.rx_fifo =
                                 kfifo_in(@, ChunkData(m1.inst.current_read_chunk))]
              ELSE [m1 EXCEPT !.inst.counter_missed = @ + 1]
    IN [wake_up_interruptible([m2 EXCEPT !.hw.callback_sem = Inc32(@),
                                         !.inst.readable = TRUE])
          EXCEPT !.inst.current_read_chunk = Inc32(@)]

\* variant: a chunk that does not fit is dropped without being counted
stream_smi_read_dma_callback_uncounted(m) ==
    LET m1 == buffer_pos(smi_refresh_dma_command(m))
        m2 == IF kfifo_avail(m1.inst.rx_fifo) >= ChunkSize
              THEN [m1 EXCEPT !.inst.rx_fifo =
                                 kfifo_in(@, ChunkData(m1.inst.current_read_chunk))]
              ELSE m1
    IN [wake_up_interruptible([m2 EXCEPT !.hw.callback_sem = Inc32(@),
                                         !.inst.readable = TRUE])
          EXCEPT !.inst.current_read_chunk = Inc32(@)]

\* stream_smi_read_dma_callback, lines 592-603: restart the peripheral and
\* store the chunk, or count it as missed
read_dma_callback_store(m) ==
    LET m1 == buffer_pos(smi_refresh_dma_command(m))
    IN IF kfifo_avail(m1.inst.rx_fifo) >= ChunkSize
       THEN [m1 EXCEPT !.inst.rx_fifo =
                          kfifo_in(@, ChunkData(m1.inst.current_read_chunk))]
       ELSE [m1 EXCEPT !.inst.counter_missed = @ + 1]

\* variant: the waiters are woken only when readable changes to true
read_dma_callback_notify_on_flip(m) ==
    LET m1 == [m EXCEPT !.hw.callback_sem = Inc32(@), !.inst.readable = TRUE]
        m2 == IF m.inst.readable THEN m1 ELSE wake_up_interruptible(m1)
    IN [m2 EXCEPT !.inst.current_read_chunk = Inc32(@)]

\* stream_smi_read_dma_callback, lines 610-614: release the semaphore, set
\* readable, wake the waiters, count the chunk
read_dma_callback_notify(m) ==
    [wake_up_interruptible([m EXCEPT !.hw.callback_sem = Inc32(@),
                                     !.inst.readable = TRUE])
       EXCEPT !.inst.current_read_chunk = Inc32(@)]

stream_smi_read_dma_callback(m) ==
    read_dma_callback_notify(read_dma_callback_store(m))

(***************************************************************************)
(* File operations                                                         *)
(***************************************************************************)
\* variant: the flush reports success without emptying the ring
flush_rx_keeps_data(m, intr) ==
    IF intr
    THEN [m EXCEPT !.ret = -EINTR]
    ELSE [m EXCEPT !.ret = 0]

\* smi_stream_read_file_fifo with buf == NULL
flush_rx(m, intr) ==
    IF intr
    THEN [m EXCEPT !.ret = -EINTR]
    ELSE [m EXCEPT !.inst.rx_fifo = kfifo_reset_out(@),
                   !.ret = 0]

\* the bytes data stored into the caller's buffer, one event per byte
copy_to_user(m, data) ==
    [m EXCEPT !.log = @ \o [i \in 1..Len(data) |-> Ev("to_user", data[i])]]

\* variant: the bytes are copied out but stay in the ring
smi_stream_read_file_fifo_peeks(m, count, intr) ==
    IF intr
    THEN [m EXCEPT !.ret = -EINTR]
    ELSE LET copied == kfifo_out_len(m.inst.rx_fifo, count)
         IN [copy_to_user(m, SubSeq(m.inst.rx_fifo.buf, 1, copied))
                EXCEPT !.ret = copied]

\* smi_stream_read_file_fifo with a user buffer
smi_stream_read_file_fifo(m, count, intr) ==
    IF intr
    THEN [m EXCEPT !.ret = -EINTR]
    ELSE LET copied == kfifo_out_len(m.inst.rx_fifo, count)
         IN [copy_to_user(m, SubSeq(m.inst.rx_fifo.buf, 1, copied))
                EXCEPT !.inst.rx_fifo = kfifo_out(@, count),
                       !.ret = copied]

\* the bytes of a user buffer of n bytes
UserData(n) == [i \in 1..n |-> 0]

\* variant: the requested count is returned instead of the accepted one
smi_stream_write_file_returns_count(m, count, intr) ==
    IF intr
    THEN [m EXCEPT !.ret = -EAGAIN]
    ELSE [m EXCEPT !.inst.tx_fifo = kfifo_in(@, UserData(count)),
                   !.ret = count]

smi_stream_write_file(m, count, intr) ==
    IF intr
    THEN [m EXCEPT !.ret = -EAGAIN]
    ELSE
      LET num_bytes_available == kfifo_avail(m.inst.tx_fifo)
          num_to_push == IF num_bytes_available > count THEN count
                         ELSE num_bytes_available
          pushed == kfifo_in(m.inst.tx_fifo, UserData(num_to_push))
      IN [m EXCEPT !.inst.tx_fifo = pushed,
                   !.ret = kfifo_len(pushed) - kfifo_len(m.inst.tx_fifo)]

\* smi_stream_poll: the mask is the sum of the event bits set
smi_stream_poll(m) ==
    LET m1 == IF ~kfifo_is_empty(m.inst.rx_fifo)
              THEN [m EXCEPT !.inst.readable = FALSE, !.ret = POLLIN + POLLRDNORM]
              ELSE [m EXCEPT !.ret = 0]
    IN IF ~kfifo_is_full(m1.inst.rx_fifo)
       THEN [m1 EXCEPT !.inst.writeable = FALSE, !.ret = @ + POLLOUT + POLLWRNORM]
       ELSE m1

\* variant: the multiplier is checked against the range probe accepts (2..32)
smi_stream_ioctl_probe_range(t, cmd, arg) ==
    IF cmd = "SET_FIFO_MULT"
    THEN IF arg > 32 \/ arg < 2
         THEN [t EXCEPT !.ret = -EINVAL]
         ELSE [t EXCEPT !.fifo_mtu_multiplier = arg, !.ret = 0]
    ELSE IF cmd = "SET_ADDR_DIR_OFFSET"
    THEN IF arg > 4 \/ arg < -1
         THEN [t EXCEPT !.ret = -EINVAL]
         ELSE [t EXCEPT !.addr_dir_offset = arg, !.ret = 0]
    ELSE IF cmd = "SET_ADDR_CH_OFFSET"
    THEN IF arg > 4 \/ arg < -1
         THEN [t EXCEPT !.ret = -EINVAL]
         ELSE [t EXCEPT !.addr_ch_offset = arg, !.ret = 0]
    ELSE IF cmd = "GET_FIFO_MULT"
    THEN [t EXCEPT !.ret = 0]
    ELSE [t EXCEPT !.ret = -ENOTTY]

\* smi_stream_ioctl, the commands that set a tunable, one that reads one and
\* an unknown one; t holds the three tunables
smi_stream_ioctl(t, cmd, arg) ==
    IF cmd = "SET_FIFO_MULT"
    THEN IF arg > 20 \/ arg < 2
         THEN [t EXCEPT !.ret = -EINVAL]
         ELSE [t EXCEPT !.fifo_mtu_multiplier = arg, !.ret = 0]
    ELSE IF cmd = "SET_ADDR_DIR_OFFSET"
    THEN IF arg > 4 \/ arg < -1
         THEN [t EXCEPT !.ret = -EINVAL]
         ELSE [t EXCEPT !.addr_dir_offset = arg, !.ret = 0]
    ELSE IF cmd = "SET_ADDR_CH_OFFSET"
    THEN IF arg > 4 \/ arg < -1
         THEN [t EXCEPT !.ret = -EINVAL]
         ELSE [t EXCEPT !.addr_ch_offset = arg, !.ret = 0]
    ELSE IF cmd = "GET_FIFO_MULT"
    THEN [t EXCEPT !.ret = 0]
    ELSE [t EXCEPT !.ret = -ENOTTY]

\* smi_stream_open; alloc is what vmalloc answered
smi_stream_open(m, alloc, e, mult, dir_off, ch_off) ==
    IF alloc = "rx_fail"
    THEN [m EXCEPT !.inst.rx_fifo_buffer = "null", !.ret = -ENOMEM]
    ELSE IF alloc = "tx_fail"
    THEN [m EXCEPT !.inst.rx_fifo_buffer = "freed",
                   !.inst.tx_fifo_buffer = "null",
                   !.ret = -ENOMEM]
    ELSE
      LET m1 == [m EXCEPT !.inst.rx_fifo_buffer = "alloc",
                          !.inst.tx_fifo_buffer = "alloc",
                          !.inst.fifo_mem = "live",
                          !.inst.rx_fifo = kfifo_init(mult * DMA_BOUNCE_BUFFER_SIZE),
                          !.inst.tx_fifo = kfifo_init(mult * DMA_BOUNCE_BUFFER_SIZE)]
          m2 == set_state(m1, smi_stream_idle, e, dir_off, ch_off)
      IN [m2 EXCEPT !.ret = 0]

\* smi_stream_release
smi_stream_release(m, e, dir_off, ch_off) ==
    LET m1 == set_state(m, smi_stream_idle, e, dir_off, ch_off)
    IN [m1 EXCEPT !.inst.fifo_mem =
                      IF m1.inst.rx_fifo_buffer = "alloc" THEN "freed" ELSE @,
                  !.inst.rx_fifo_buffer = "null",
                  !.inst.tx_fifo_buffer = "null",
                  !.ret = 0]

(***************************************************************************)
(* State machine                                                           *)
(***************************************************************************)
\* the machine a handler starts from
Enter == [inst |-> inst, hw |-> hw, log |-> <<>>, ret |-> -1]

\* the record of the handler that ran
Done(op, arg, r) == [op |-> op, arg |-> arg, ret |-> r.ret, log |-> r.log]

\* scen/n: the session is at "open, then set_state(RxChannel0), then n receive
\* completions"; lost: a chunk was counted as missed since the device was opened
NoScenario == [scen |-> "off", n |-> 0, lost |-> FALSE]

OffScenario == [scen |-> "off", n |-> 0, lost |-> hist.lost]

\* The user process of a run is a controller (control operations only), a
\* receiver (it also reads and flushes) or a transmitter (it also writes; no
\* receive completion is delivered to it).  read and flush touch rx_fifo only
\* and write touches tx_fifo only, so the three kinds of run cover every ring.
\* In a receiver run the hardware answers every command in time; controller
\* and transmitter runs draw every answer.  A tuner changes the tunables
\* between control operations (hardware in time, no completion delivered); its
\* runs are the ones in which an offset can be negative.
\* In a sharing run several processes hold the device open at once (hardware in
\* time); in the other runs one handle is open at a time.
Roles == {"control", "receive", "transmit", "tune", "share"}

\* the threads that call set_state in the runs that follow handlers step by step
Callers == 1..MaxCallers

\* no thread is inside a handler:
\*   pc[t], arg[t]  where caller t stands in set_state, and its new_state
\*   owner          the caller that took state_lock last and has not released it
\*   actor          the caller that made the last step (0: another thread)
\*   cb             where the receive completion callback stands
\*   poll           where the process in poll() stands
\*   triggered      its wait-queue entry was woken since it was last cleared
ThrIdle ==
    [pc |-> [t \in Callers |-> "out"],
     arg |-> [t \in Callers |-> smi_stream_idle],
     owner |-> 0,
     actor |-> 0,
     cb |-> "idle",
     poll |-> "out",
     triggered |-> FALSE]

HandleLimit == IF role = "share" THEN MaxHandles ELSE 1

Answers(new_state) ==
    IF role \in {"receive", "share"} THEN {GoodOutcome}
    ELSE IF role \in {"tune", "select"}
    THEN IF addr_dir_offset < 0 \/ addr_ch_offset < 0
         THEN {[GoodOutcome EXCEPT !.shl = ub] : ub \in UndefinedShift}
         ELSE {GoodOutcome}
    ELSE Outcomes(new_state, inst.state)

\* after probe: the instance is zeroed, nothing is open, the module parameters
\* hold the values the module was loaded with
Init ==
    /\ inst = [state |-> smi_stream_idle,
               state_lock |-> FALSE,
               rx_fifo |-> [size |-> 1, buf |-> <<>>],
               tx_fifo |-> [size |-> 1, buf |-> <<>>],
               rx_fifo_buffer |-> "null",
               tx_fifo_buffer |-> "null",
               fifo_mem |-> "none",
               current_read_chunk |-> 0,
               counter_missed |-> 0,
               count_since_refresh |-> 0,
               readable |-> FALSE,
               writeable |-> FALSE,
               transfer_thread_running |-> FALSE,
               reader_waiting_sema |-> FALSE]
    /\ hw = [address |-> 0, dma |-> <<>>, enable |-> FALSE, callback_sem |-> 0]
    /\ is_open = FALSE
    /\ handles = 0
    /\ fifo_mtu_multiplier \in LoadMultipliers
    /\ addr_dir_offset = DefaultDirOffset
    /\ addr_ch_offset = DefaultChOffset
    /\ role \in Roles
    /\ last = [op |-> "probe", arg |-> 0, ret |-> 0, log |-> <<>>]
    /\ hist = NoScenario
    /\ thr = ThrIdle

Params == <<fifo_mtu_multiplier, addr_dir_offset, addr_ch_offset, role>>

Open ==
    /\ handles < HandleLimit
    /\ ~inst.state_lock
    /\ \E alloc \in {"ok", "rx_fail", "tx_fail"} :
       \E e \in Answers(smi_stream_idle) :
          /\ (alloc # "ok") => e = GoodOutcome
          /\ \E r \in {smi_stream_open(Enter, alloc, e, fifo_mtu_multiplier,
                                      addr_dir_offset, addr_ch_offset)} :
                /\ inst' = r.inst
                /\ hw' = r.hw
                /\ handles' = IF alloc = "ok" THEN handles + 1 ELSE handles
                /\ is_open' = (handles' > 0)
                /\ last' = Done("open", 0, r)
                /\ hist' = IF alloc = "ok"
                           THEN [scen |-> "opened", n |-> 0, lost |-> FALSE]
                           ELSE NoScenario
    /\ UNCHANGED <<Params, thr>>

Release ==
    /\ is_open
    /\ ~inst.state_lock
    /\ \E e \in Answers(smi_stream_idle) :
          \E r \in {smi_stream_release(Enter, e, addr_dir_offset, addr_ch_offset)} :
             /\ inst' = r.inst
             /\ hw' = r.hw
             /\ last' = Done("release", 0, r)
    /\ handles' = handles - 1
    /\ is_open' = (handles' > 0)
    /\ hist' = NoScenario
    /\ UNCHANGED <<Params, thr>>

\* smi_stream_ioctl, SMI_STREAM_IOC_SET_STREAM_STATUS
SetState ==
    /\ is_open
    /\ ~inst.state_lock
    /\ \E new_state \in StateArgs :
       \E e \in Answers(new_state) :
          \E r \in {set_state(Enter, new_state, e, addr_dir_offset, addr_ch_offset)} :
             /\ inst' = r.inst
             /\ hw' = r.hw
             /\ last' = Done("set_state", new_state, r)
             /\ hist' = IF /\ hist.scen = "opened"
                           /\ new_state = smi_stream_rx_channel_0
                           /\ inst.state = smi_stream_idle
                           /\ r.ret = 0
                        THEN [scen |-> "rx0", n |-> 0, lost |-> FALSE]
                        ELSE OffScenario
    /\ UNCHANGED <<is_open, handles, Params, thr>>

RxCompletion ==
    /\ role \in {"control", "receive", "share"}
    /\ hw.dma # <<>>
    /\ inst.current_read_chunk < MaxChunks
    /\ inst.counter_missed < MaxMissed
    /\ \E r \in {stream_smi_read_dma_callback(Enter)} :
          /\ inst' = r.inst
          /\ hw' = r.hw
          /\ last' = Done("rx_callback", 0, [r EXCEPT !.ret = 0])
          /\ hist' = [scen |-> IF hist.scen = "rx0" THEN "rx0" ELSE "off",
                      n |-> IF hist.scen = "rx0" THEN hist.n + 1 ELSE 0,
                      lost |-> hist.lost \/ r.inst.counter_missed # inst.counter_missed]
    /\ UNCHANGED <<is_open, handles, Params, thr>>

Read ==
    /\ role = "receive"
    /\ is_open
    /\ \E count \in 0..MaxCount, intr \in BOOLEAN :
          \E r \in {smi_stream_read_file_fifo(Enter, count, intr)} :
             /\ inst' = r.inst
             /\ hw' = r.hw
             /\ last' = Done("read", count, r)
    /\ hist' = OffScenario
    /\ UNCHANGED <<is_open, handles, Params, thr>>

Flush ==
    /\ role \in {"receive", "race"}
    /\ is_open
    /\ \E intr \in BOOLEAN :
          \E r \in {flush_rx(Enter, intr)} :
             /\ inst' = r.inst
             /\ hw' = r.hw
             /\ last' = Done("flush", kfifo_len(inst.rx_fifo), r)
    /\ hist' = OffScenario
    /\ UNCHANGED <<is_open, handles, Params, thr>>

Write ==
    /\ role = "transmit"
    /\ is_open
    /\ \E count \in 0..MaxCount, intr \in BOOLEAN :
          \E r \in {smi_stream_write_file(Enter, count, intr)} :
             /\ inst' = r.inst
             /\ hw' = r.hw
             /\ last' = Done("write", count, r)
    /\ UNCHANGED <<is_open, handles, Params, hist, thr>>

\* the commands and arguments given to smi_stream_ioctl
IoctlCmds ==
    {"SET_FIFO_MULT", "SET_ADDR_DIR_OFFSET", "SET_ADDR_CH_OFFSET", "GET_FIFO_MULT", "UNKNOWN"}

IoctlArgs(cmd) ==
    IF cmd = "SET_FIFO_MULT" THEN MultArgs
    ELSE IF cmd \in {"SET_ADDR_DIR_OFFSET", "SET_ADDR_CH_OFFSET"} THEN OffsetArgs
    ELSE {0}

Ioctl ==
    /\ role = "tune"
    /\ is_open
    /\ \E cmd \in IoctlCmds : \E arg \in IoctlArgs(cmd) :
          \E t \in {smi_stream_ioctl([fifo_mtu_multiplier |-> fifo_mtu_multiplier,
                                      addr_dir_offset |-> addr_dir_offset,
                                      addr_ch_offset |-> addr_ch_offset,
                                      ret |-> 0], cmd, arg)} :
             /\ fifo_mtu_multiplier' = t.fifo_mtu_multiplier
             /\ addr_dir_offset' = t.addr_dir_offset
             /\ addr_ch_offset' = t.addr_ch_offset
             /\ last' = [op |-> cmd, arg |-> arg, ret |-> t.ret, log |-> <<>>]
    /\ UNCHANGED <<inst, hw, is_open, handles, role, hist, thr>>

Poll ==
    /\ role # "tune"
    /\ is_open
    /\ \E r \in {smi_stream_poll(Enter)} :
          /\ inst' = r.inst
          /\ hw' = r.hw
          /\ last' = Done("poll", 0, r)
    /\ UNCHANGED <<is_open, handles, Params, hist, thr>>

Next ==
    \/ Open
    \/ Release
    \/ SetState
    \/ RxCompletion
    \/ Read
    \/ Flush
    \/ Write
    \/ Poll
    \/ Ioctl

Spec == Init /\ [][Next]_vars

(***************************************************************************)
(* Handlers followed step by step: MaxCallers threads in set_state (ioctl   *)
(* SET_STREAM_STATUS on the open device), the receive completion callback   *)
(* of the DMA engine, a process in poll() waiting for POLLIN, and a reader  *)
(* that flushes.  A step is the code between two points where another      *)
(* thread can be observed: taking the state lock, the stop, the selector    *)
(* programming, the arming; storing a chunk, notifying; poll_wait, the     *)
(* occupancy test.                                                         *)
(***************************************************************************)
\* variant: spin_lock returns whether or not the lock is held
spin_lock_acquires_anyway(held) == TRUE

\* spin_lock(&inst->state_lock) returns once the lock is not held
spin_lock_acquires(held) == ~held

\* variant: the callback takes the state lock
callback_locks_state == {"state_lock"}

\* the locks stream_smi_read_dma_callback acquires: none
callback_locks == {}

\* lock l is held: state_lock from spin_lock to spin_unlock in set_state,
\* transaction_lock around dmaengine_terminate_sync in transfer_thread_stop
Held(l) ==
    IF l = "state_lock" THEN inst.state_lock
    ELSE l = "transaction_lock" /\ \E t \in Callers : thr.pc[t] = "stop"

\* what the hardware and the kernel answer to the step at pc of a call for
\* new_state: in time, or the one failure the step can see
StepAnswers(pc, new_state) ==
    IF pc = "stop" THEN {GoodOutcome, [GoodOutcome EXCEPT !.active = TRUE]}
    ELSE IF pc = "select" /\ new_state = smi_stream_tx_channel
    THEN {GoodOutcome, [GoodOutcome EXCEPT !.intr = TRUE]}
    ELSE IF pc = "arm" THEN {GoodOutcome, [GoodOutcome EXCEPT !.desc_ok = FALSE]}
    ELSE {GoodOutcome}

\* the wait-queue entry of the process in poll() after a handler that ran r
Woken(r) ==
    \/ thr.triggered
    \/ thr.poll # "out" /\ \E i \in DOMAIN r.log : r.log[i].op = "wake_up"

\* after a successful open
InitRace ==
    /\ inst = [state |-> smi_stream_idle,
               state_lock |-> FALSE,
               rx_fifo |-> kfifo_init(2 * DMA_BOUNCE_BUFFER_SIZE),
               tx_fifo |-> kfifo_init(2 * DMA_BOUNCE_BUFFER_SIZE),
               rx_fifo_buffer |-> "alloc",
               tx_fifo_buffer |-> "alloc",
               fifo_mem |-> "live",
               current_read_chunk |-> 0,
               counter_missed |-> 0,
               count_since_refresh |-> 0,
               readable |-> FALSE,
               writeable |-> FALSE,
               transfer_thread_running |-> FALSE,
               reader_waiting_sema |-> FALSE]
    /\ hw = [address |-> 0, dma |-> <<>>, enable |-> FALSE, callback_sem |-> 0]
    /\ is_open = TRUE
    /\ handles = 1
    /\ fifo_mtu_multiplier = 2
    /\ addr_dir_offset = DefaultDirOffset
    /\ addr_ch_offset = DefaultChOffset
    /\ role = "race"
    /\ last = [op |-> "open", arg |-> 0, ret |-> 0, log |-> <<>>]
    /\ hist = NoScenario
    /\ thr = ThrIdle

RaceFrame == <<is_open, handles, Params, hist>>

\* set_state is entered (line 219)
Call(t) ==
    /\ thr.pc[t] = "out"
    /\ \E new_state \in StateArgs :
          /\ thr' = [thr EXCEPT !.pc[t] = "spin", !.arg[t] = new_state, !.actor = t]
          /\ last' = [op |-> "set_state.call", arg |-> new_state, ret |-> 0, log |-> <<>>]
    /\ UNCHANGED <<inst, hw, RaceFrame>>

\* spin_lock (227) and the test of the current state (231); a call for the
\* current state unlocks and returns (250-254)
Lock(t) ==
    /\ thr.pc[t] = "spin"
    /\ spin_lock_acquires(inst.state_lock)
    /\ IF thr.arg[t] # inst.state
       THEN /\ inst' = [inst EXCEPT !.state_lock = TRUE]
            /\ thr' = [thr EXCEPT !.pc[t] = "stop", !.owner = t, !.actor = t]
       ELSE /\ inst' = [inst EXCEPT !.state_lock = FALSE]
            /\ thr' = [thr EXCEPT !.pc[t] = "out", !.arg[t] = smi_stream_idle, !.owner = 0, !.actor = t]
    /\ last' = [op |-> "set_state.lock", arg |-> thr.arg[t], ret |-> 0, log |-> <<>>]
    /\ UNCHANGED <<hw, RaceFrame>>

\* lines 234-248; dmaengine_terminate_sync returns when no callback is running.
\* Busy, or a call for Idle, unlocks and returns.
Stop(t) ==
    /\ thr.pc[t] = "stop"
    /\ thr.cb = "idle"
    /\ \E e \in StepAnswers("stop", thr.arg[t]) :
       \E r \in {set_state_stop(Enter, thr.arg[t], e, addr_dir_offset, addr_ch_offset)} :
          /\ hw' = r.hw
          /\ last' = Done("set_state.stop", thr.arg[t], r)
          /\ IF r.ret # 0 \/ thr.arg[t] = smi_stream_idle
             THEN /\ inst' = [r.inst EXCEPT !.state_lock = FALSE]
                  /\ thr' = [thr EXCEPT !.pc[t] = "out", !.arg[t] = smi_stream_idle, !.owner = 0, !.actor = t]
             ELSE /\ inst' = r.inst
                  /\ thr' = [thr EXCEPT !.pc[t] = "select", !.actor = t]
    /\ UNCHANGED RaceFrame

\* lines 258-281; the TxChannel call returns here, without the unlock if it
\* was interrupted
Select(t) ==
    /\ thr.pc[t] = "select"
    /\ \E e \in StepAnswers("select", thr.arg[t]) :
       \E r \in {set_state_select(Enter, thr.arg[t], e, addr_dir_offset, addr_ch_offset)} :
          /\ hw' = r.hw
          /\ last' = Done("set_state.select", thr.arg[t], r)
          /\ IF thr.arg[t] # smi_stream_tx_channel
             THEN /\ inst' = r.inst
                  /\ thr' = [thr EXCEPT !.pc[t] = "arm", !.actor = t]
             ELSE IF r.ret = -EINTR
             THEN /\ inst' = r.inst
                  /\ thr' = [thr EXCEPT !.pc[t] = "out", !.arg[t] = smi_stream_idle,
                                        !.actor = t]
             ELSE /\ inst' = [r.inst EXCEPT !.state_lock = FALSE]
                  /\ thr' = [thr EXCEPT !.pc[t] = "out", !.arg[t] = smi_stream_idle, !.owner = 0, !.actor = t,
                                        !.triggered = Woken(r)]
    /\ UNCHANGED RaceFrame

\* lines 282-304
Arm(t) ==
    /\ thr.pc[t] = "arm"
    /\ \E e \in StepAnswers("arm", thr.arg[t]) :
       \E r \in {set_state_arm(Enter, thr.arg[t], e, addr_dir_offset, addr_ch_offset)} :
          /\ hw' = r.hw
          /\ inst' = [r.inst EXCEPT !.state_lock = FALSE]
          /\ last' = Done("set_state.arm", thr.arg[t], r)
          /\ thr' = [thr EXCEPT !.pc[t] = "out", !.arg[t] = smi_stream_idle, !.owner = 0, !.actor = t]
    /\ UNCHANGED RaceFrame

\* stream_smi_read_dma_callback, first part (592-603)
CbStore ==
    /\ thr.cb = "idle"
    /\ hw.dma # <<>>
    /\ inst.current_read_chunk < MaxRaceChunks
    /\ \A l \in callback_locks : ~Held(l)
    /\ \E r \in {read_dma_callback_store(Enter)} :
          /\ inst' = r.inst
          /\ hw' = r.hw
          /\ last' = Done("rx_callback.store", 0, [r EXCEPT !.ret = 0])
    /\ thr' = [thr EXCEPT !.cb = "stored", !.actor = 0]
    /\ UNCHANGED RaceFrame

\* stream_smi_read_dma_callback, second part (610-614)
CbNotify ==
    /\ thr.cb = "stored"
    /\ \A l \in callback_locks : ~Held(l)
    /\ \E r \in {read_dma_callback_notify(Enter)} :
          /\ inst' = r.inst
          /\ hw' = r.hw
          /\ last' = Done("rx_callback.notify", 0, [r EXCEPT !.ret = 0])
          /\ thr' = [thr EXCEPT !.cb = "idle", !.actor = 0, !.triggered = Woken(r)]
    /\ UNCHANGED RaceFrame

\* the mask holds POLLIN
PollIn(mask) == (mask \div POLLIN) % 2 = 1

\* poll(): poll_wait puts the caller on poll_event (920)
PollWait ==
    /\ thr.poll = "out"
    /\ thr' = [thr EXCEPT !.poll = "queued", !.triggered = FALSE, !.actor = 0]
    /\ last' = [op |-> "poll.wait", arg |-> 0, ret |-> 0, log |-> <<>>]
    /\ UNCHANGED <<inst, hw, RaceFrame>>

\* the occupancy tests (922-936): with POLLIN in the mask poll() returns to the
\* process, without it the process sleeps on the queue
PollTest ==
    /\ thr.poll = "queued"
    /\ \E r \in {smi_stream_poll(Enter)} :
          /\ inst' = r.inst
          /\ hw' = r.hw
          /\ last' = Done("poll.test", kfifo_len(inst.rx_fifo), r)
          /\ thr' = [thr EXCEPT !.poll = IF PollIn(r.ret) THEN "out" ELSE "sleep",
                                !.actor = 0]
    /\ UNCHANGED RaceFrame

\* a woken sleeper clears the mark and calls smi_stream_poll again
PollWoken ==
    /\ thr.poll = "sleep"
    /\ thr.triggered
    /\ thr' = [thr EXCEPT !.poll = "queued", !.triggered = FALSE, !.actor = 0]
    /\ last' = [op |-> "poll.woken", arg |-> 0, ret |-> 0, log |-> <<>>]
    /\ UNCHANGED <<inst, hw, RaceFrame>>

\* the callers of set_state and the completion callback
NextRace ==
    \/ \E t \in Callers : Call(t)
    \/ \E t \in Callers : Lock(t)
    \/ \E t \in Callers : Stop(t)
    \/ \E t \in Callers : Select(t)
    \/ \E t \in Callers : Arm(t)
    \/ CbStore
    \/ CbNotify

SpecRace == InitRace /\ [][NextRace]_vars

\* after a successful open and set_state(RxChannel0)
InitPoll ==
    /\ inst = [state |-> smi_stream_rx_channel_0,
               state_lock |-> FALSE,
               rx_fifo |-> kfifo_init(2 * DMA_BOUNCE_BUFFER_SIZE),
               tx_fifo |-> kfifo_init(2 * DMA_BOUNCE_BUFFER_SIZE),
               rx_fifo_buffer |-> "alloc",
               tx_fifo_buffer |-> "alloc",
               fifo_mem |-> "live",
               current_read_chunk |-> 0,
               counter_missed |-> 0,
               count_since_refresh |-> 0,
               readable |-> FALSE,
               writeable |-> FALSE,
               transfer_thread_running |-> TRUE,
               reader_waiting_sema |-> FALSE]
    /\ hw = [address |-> calc_address_from_state(smi_stream_rx_channel_0,
                                                 DefaultDirOffset, DefaultChOffset, 0),
             dma |-> <<[dir |-> "rx",
                        addr |-> calc_address_from_state(smi_stream_rx_channel_0,
                                     DefaultDirOffset, DefaultChOffset, 0)]>>,
             enable |-> TRUE,
             callback_sem |-> 0]
    /\ is_open = TRUE
    /\ handles = 1
    /\ fifo_mtu_multiplier = 2
    /\ addr_dir_offset = DefaultDirOffset
    /\ addr_ch_offset = DefaultChOffset
    /\ role = "race"
    /\ last = [op |-> "set_state", arg |-> smi_stream_rx_channel_0, ret |-> 0, log |-> <<>>]
    /\ hist = NoScenario
    /\ thr = ThrIdle

\* the completion callback, the process in poll() and the reader
NextPoll ==
    \/ CbStore
    \/ CbNotify
    \/ PollWait
    \/ PollTest
    \/ PollWoken
    \/ Flush

SpecPoll == InitPoll /\ [][NextPoll]_vars

(***************************************************************************)
(* A receive transfer that has been running for a long time: the device    *)
(* was opened, RxChannel0 armed, and 2^32 - WrapLead chunks were completed *)
(* and read (none missed, the ring drained, the last poll cleared          *)
(* readable).  The reader flushes between completions.                     *)
(***************************************************************************)
InitSlots ==
    /\ inst = [state |-> smi_stream_rx_channel_0,
               state_lock |-> FALSE,
               rx_fifo |-> kfifo_init(2 * DMA_BOUNCE_BUFFER_SIZE),
               tx_fifo |-> kfifo_init(2 * DMA_BOUNCE_BUFFER_SIZE),
               rx_fifo_buffer |-> "alloc",
               tx_fifo_buffer |-> "alloc",
               fifo_mem |-> "live",
               current_read_chunk |-> 0 - WrapLead,
               counter_missed |-> 0,
               count_since_refresh |-> 0,
               readable |-> FALSE,
               writeable |-> FALSE,
               transfer_thread_running |-> TRUE,
               reader_waiting_sema |-> FALSE]
    /\ hw = [address |-> calc_address_from_state(smi_stream_rx_channel_0,
                                                 DefaultDirOffset, DefaultChOffset, 0),
             dma |-> <<[dir |-> "rx",
                        addr |-> calc_address_from_state(smi_stream_rx_channel_0,
                                     DefaultDirOffset, DefaultChOffset, 0)]>>,
             enable |-> TRUE,
             callback_sem |-> 0 - WrapLead]
    /\ is_open = TRUE
    /\ handles = 1
    /\ fifo_mtu_multiplier = 2
    /\ addr_dir_offset = DefaultDirOffset
    /\ addr_ch_offset = DefaultChOffset
    /\ role = "receive"
    /\ last = [op |-> "poll", arg |-> 0, ret |-> POLLOUT + POLLWRNORM, log |-> <<>>]
    /\ hist = NoScenario
    /\ thr = ThrIdle

NextSlots ==
    \/ RxCompletion
    \/ Flush

SpecSlots == InitSlots /\ [][NextSlots]_vars

(***************************************************************************)
(* The selectors under every configuration the module can be loaded with.  *)
(* probe accepts each offset in -1..4 and refuses two equal offsets unless  *)
(* both are -1; the process then opens the device and sets stream states   *)
(* (hardware in time).                                                     *)
(***************************************************************************)
LoadOffsets ==
    {p \in (-1..4) \X (-1..4) : ~(p[1] = p[2] /\ p[1] # -1)}

InitSelect ==
    /\ inst = [state |-> smi_stream_idle,
               state_lock |-> FALSE,
               rx_fifo |-> [size |-> 1, buf |-> <<>>],
               tx_fifo |-> [size |-> 1, buf |-> <<>>],
               rx_fifo_buffer |-> "null",
               tx_fifo_buffer |-> "null",
               fifo_mem |-> "none",
               current_read_chunk |-> 0,
               counter_missed |-> 0,
               count_since_refresh |-> 0,
               readable |-> FALSE,
               writeable |-> FALSE,
               transfer_thread_running |-> FALSE,
               reader_waiting_sema |-> FALSE]
    /\ hw = [address |-> 0, dma |-> <<>>, enable |-> FALSE, callback_sem |-> 0]
    /\ is_open = FALSE
    /\ handles = 0
    /\ fifo_mtu_multiplier \in LoadMultipliers
    /\ \E p \in LoadOffsets : addr_dir_offset = p[1] /\ addr_ch_offset = p[2]
    /\ role = "select"
    /\ last = [op |-> "probe", arg |-> 0, ret |-> 0, log |-> <<>>]
    /\ hist = NoScenario
    /\ thr = ThrIdle

NextSelect ==
    \/ Open
    \/ SetState
    \/ Release

SpecSelect == InitSelect /\ [][NextSelect]_vars

(***************************************************************************)
(* Reading the record of the last handler                                  *)
(***************************************************************************)
Has(log, op) == \E i \in DOMAIN log : log[i].op = op

Times(log, op) == Cardinality({i \in DOMAIN log : log[i].op = op})

IdleAddress ==
    calc_address_from_state(smi_stream_idle, addr_dir_offset, addr_ch_offset, 0)

\* the handlers that run set_state
Transitions == {"set_state", "open", "release"}

\* the log position i programs a selector other than the Idle one (by value, or
\* because it is the second programming of a call for a non-Idle state), or
\* arms the DMA
NonIdleAt(log, i) ==
    \/ log[i].op = "set_address" /\ log[i].val # IdleAddress
    \/ /\ log[i].op = "set_address"
       /\ last.arg # smi_stream_idle
       /\ Times(SubSeq(log, 1, i), "set_address") = 2
    \/ log[i].op = "issue"

\* before position i the transfer was terminated and the Idle selector programmed
SafeIdleBefore(log, i) ==
    \E j \in 1..(i - 1) : \E k \in (j + 1)..(i - 1) :
        /\ log[j].op = "terminate"
        /\ log[k] = Ev("set_address", IdleAddress)

(***************************************************************************)
(* C1                                                                      *)
(***************************************************************************)
\* C1: at most one channel is armed at any time, and a handler that programs a
\* non-Idle address selector (or arms the DMA) has, earlier in the same call,
\* terminated the running transfer and programmed the Idle selector.
C1_OneArmedChannel ==
    /\ Len(hw.dma) <= 1
    /\ (last.op \in Transitions) =>
          \A i \in DOMAIN last.log :
              NonIdleAt(last.log, i) => SafeIdleBefore(last.log, i)

\* a receive channel armed by a call made while an earlier receive transfer had
\* already delivered chunks
C1_Witness ==
    /\ last.op = "set_state"
    /\ last.arg = smi_stream_rx_channel_1
    /\ last.ret = 0
    /\ Len(hw.dma) = 1
    /\ hw.dma[1].addr = calc_address_from_state(smi_stream_rx_channel_1,
                                                addr_dir_offset, addr_ch_offset, 0)
    /\ inst.current_read_chunk = 0
    /\ kfifo_len(inst.rx_fifo) > 0

(***************************************************************************)
(* C2                                                                      *)
(***************************************************************************)
\* C2: set_state(s) called while the stream state is s returns 0 and changes
\* nothing: no hardware access, state, rings and armed transfer as before, the
\* state lock released.
C2_SameStateNoOp ==
    [][(last'.op = "set_state" /\ last'.arg = inst.state) =>
         /\ last'.ret = 0
         /\ last'.log = <<>>
         /\ inst' = inst
         /\ hw' = hw
         /\ ~inst'.state_lock]_vars

\* set_state(RxChannel0) answered as a no-op while RxChannel0 is armed
C2_Witness ==
    /\ last.op = "set_state"
    /\ last.arg = smi_stream_rx_channel_0
    /\ inst.state = smi_stream_rx_channel_0
    /\ last.log = <<>>
    /\ last.ret = 0
    /\ Len(hw.dma) = 1

(***************************************************************************)
(* C3                                                                      *)
(***************************************************************************)
\* set_state read the peripheral as still active after stopping the transfer
FoundActive(log) == \E i \in DOMAIN log : log[i] = Ev("is_active", 1)

\* C3: a set_state call that finds the peripheral still active after stopping
\* the transfer fails with Busy (-EAGAIN), does not enter the requested state
\* and leaves the stream state Idle.
C3_BusyLeavesIdle ==
    (last.op = "set_state" /\ FoundActive(last.log)) =>
        /\ last.ret = -EAGAIN
        /\ (last.arg # smi_stream_idle => inst.state # last.arg)
        /\ inst.state = smi_stream_idle

(***************************************************************************)
(* C4                                                                      *)
(***************************************************************************)
\* C4: after a set_state call failed with Busy because the hardware stayed
\* active, a following set_state(Idle) succeeds and leaves the state Idle with
\* no cyclic transfer armed.
C4_IdleAfterBusy ==
    [][(/\ last.op = "set_state"
        /\ FoundActive(last.log)
        /\ last.ret = -EAGAIN
        /\ last'.op = "set_state"
        /\ last'.arg = smi_stream_idle) =>
         /\ last'.ret = 0
         /\ inst'.state = smi_stream_idle
         /\ hw'.dma = <<>>]_vars

(***************************************************************************)
(* C5                                                                      *)
(***************************************************************************)
\* the call got as far as transfer_thread_init (its smi_disable_sync is the
\* second one of the call)
ReachedArming(log) == Times(log, "disable") >= 2

\* C5: a set_state call to a receive channel that reaches the arming step and
\* fails there ends with the stream state Idle, the Idle selector the last one
\* programmed, and a non-zero result; one whose arming succeeds ends with
\* state = new_state and result 0.
C5_ArmingRollback ==
    (last.op = "set_state" /\ last.arg \in RxStates /\ ReachedArming(last.log)) =>
        IF last.ret = 0
        THEN /\ inst.state = last.arg
             /\ Has(last.log, "issue")
             /\ Len(hw.dma) = 1
        ELSE /\ inst.state = smi_stream_idle
             /\ hw.address = IdleAddress
             /\ last.log[Len(last.log)] = Ev("set_address", IdleAddress)
             /\ last.ret # 0

\* the cyclic descriptor could not be submitted for RxChannel1
C5_Witness ==
    /\ last.op = "set_state"
    /\ last.arg = smi_stream_rx_channel_1
    /\ Has(last.log, "submit_failed")
    /\ last.ret = 1
    /\ inst.state = smi_stream_idle
    /\ hw.address = IdleAddress

(***************************************************************************)
(* C6                                                                      *)
(***************************************************************************)
\* C6: in every reachable state each ring holds no more bytes than its
\* capacity, and a receive
\* completion that finds less than one chunk of free space in the RX ring adds
\* exactly 1 to counter_missed and leaves the RX ring as it was.
C6_NoOverflow ==
    /\ [](/\ kfifo_len(inst.rx_fifo) <= inst.rx_fifo.size
          /\ kfifo_len(inst.tx_fifo) <= inst.tx_fifo.size)
    /\ [][(last'.op = "rx_callback" /\ kfifo_avail(inst.rx_fifo) < ChunkSize) =>
            /\ inst'.counter_missed = inst.counter_missed + 1
            /\ inst'.rx_fifo = inst.rx_fifo]_vars

\* a chunk was dropped while part of a chunk of free space was left
C6_Witness ==
    /\ last.op = "rx_callback"
    /\ inst.counter_missed >= 1
    /\ kfifo_avail(inst.rx_fifo) > 0
    /\ kfifo_avail(inst.rx_fifo) < ChunkSize

(***************************************************************************)
(* C7                                                                      *)
(***************************************************************************)
\* capacity of the RX ring in whole chunks
RxChunks == inst.rx_fifo.size \div ChunkSize

\* C7: after open, set_state(RxChannel0) and then n receive completions with
\* no read in between, the RX ring holds min(n, k) chunks and counter_missed
\* is max(0, n - k), k being the capacity of the RX ring in chunks; every
\* completion either stores one chunk or counts one miss, never both.
C7_FillThenMiss ==
    /\ [](hist.scen = "rx0" =>
            /\ kfifo_len(inst.rx_fifo) = Min(hist.n, RxChunks) * ChunkSize
            /\ inst.counter_missed = Max(0, hist.n - RxChunks))
    /\ [][last'.op = "rx_callback" =>
            \/ /\ kfifo_len(inst'.rx_fifo) = kfifo_len(inst.rx_fifo) + ChunkSize
               /\ inst'.counter_missed = inst.counter_missed
            \/ /\ inst'.rx_fifo = inst.rx_fifo
               /\ inst'.counter_missed = inst.counter_missed + 1]_vars

\* two completions more than the ring has room for
C7_Witness ==
    /\ hist.scen = "rx0"
    /\ hist.n = RxChunks + 2
    /\ inst.counter_missed = 2
    /\ kfifo_len(inst.rx_fifo) = RxChunks * ChunkSize

(***************************************************************************)
(* C8                                                                      *)
(***************************************************************************)
\* C8 as stated: while the device stays open counter_missed never decreases;
\* only opening a session resets it.
C8_MonotonicInSession ==
    [][\/ inst'.counter_missed >= inst.counter_missed
       \/ last'.op = "open" /\ inst'.counter_missed = 0]_vars

\* C8: counter_missed changes in two ways only: a receive completion that
\* finds less than a chunk of free space adds 1, and a set_state call to a
\* receive channel that gets past the programmed-transfer step of the arming
\* sets it to 0; every other handler, open included, leaves it as it is.
C8_CounterChanges ==
    [][IF last'.op = "rx_callback"
       THEN inst'.counter_missed =
                IF kfifo_avail(inst.rx_fifo) < ChunkSize
                THEN inst.counter_missed + 1 ELSE inst.counter_missed
       ELSE IF /\ last'.op = "set_state"
               /\ last'.arg \in RxStates
               /\ Has(last'.log, "refresh")
       THEN inst'.counter_missed = 0
       ELSE inst'.counter_missed = inst.counter_missed]_vars

\* chunks were counted as missed in this session and the counter reads 0 again
\* after a receive channel was armed
C8_Witness ==
    /\ is_open
    /\ hist.lost
    /\ last.op = "set_state"
    /\ last.arg \in RxStates
    /\ Has(last.log, "refresh")
    /\ inst.counter_missed = 0

(***************************************************************************)
(* C9                                                                      *)
(***************************************************************************)
\* C9 as stated: a flush always returns 0 with the RX ring empty, and leaves
\* the TX ring, the stream state and the hardware alone.
C9_FlushAlwaysEmpties ==
    [][last'.op = "flush" =>
         /\ last'.ret = 0
         /\ kfifo_len(inst'.rx_fifo) = 0
         /\ inst'.tx_fifo = inst.tx_fifo
         /\ inst'.state = inst.state
         /\ hw' = hw]_vars

\* C9: a flush either returns 0 and has emptied the RX ring, changing nothing
\* else, or returns -EINTR (the wait for read_lock was interrupted) and has
\* changed nothing at all.
C9_FlushOrInterrupted ==
    [][last'.op = "flush" =>
         /\ hw' = hw
         /\ IF last'.ret = 0
            THEN inst' = [inst EXCEPT !.rx_fifo.buf = <<>>]
            ELSE last'.ret = -EINTR /\ inst' = inst]_vars

\* a flush that discarded stored bytes
C9_Witness ==
    /\ last.op = "flush"
    /\ last.arg > 0
    /\ last.ret = 0
    /\ kfifo_len(inst.rx_fifo) = 0

Delivered(log) == [i \in 1..Len(log) |-> log[i].val]

C12_PollMask ==
    last.op = "poll" =>
        last.ret = (IF ~kfifo_is_empty(inst.rx_fifo) THEN POLLIN + POLLRDNORM ELSE 0)
                 + (IF ~kfifo_is_full(inst.tx_fifo) THEN POLLOUT + POLLWRNORM ELSE 0)

(***************************************************************************)
(* C13                                                                     *)
(***************************************************************************)
Tunables == <<fifo_mtu_multiplier, addr_dir_offset, addr_ch_offset>>

\* the step ran a tunable-setting command with a value outside its range
InvalidTunableStep ==
    \/ last'.op = "SET_FIFO_MULT" /\ last'.arg \notin 2..20
    \/ last'.op \in {"SET_ADDR_DIR_OFFSET", "SET_ADDR_CH_OFFSET"} /\ last'.arg \notin (-1)..4

\* C13: a control operation that sets a tunable to a value outside its range
\* (multiplier 2..20, offsets -1..4) fails with -EINVAL and an unknown control
\* code fails with -ENOTTY; either leaves the three tunables, the stream state,
\* both rings and the hardware unchanged.
C13_InvalidRejected ==
    [][/\ InvalidTunableStep =>
            /\ last'.ret = -EINVAL
            /\ Tunables' = Tunables /\ inst' = inst /\ hw' = hw
       /\ last'.op = "UNKNOWN" =>
            /\ last'.ret = -ENOTTY
            /\ Tunables' = Tunables /\ inst' = inst /\ hw' = hw]_vars

\* a direction offset of 5 refused after 4 had been accepted
C13_Witness ==
    /\ last.op = "SET_ADDR_DIR_OFFSET"
    /\ last.arg = 5
    /\ last.ret = -EINVAL
    /\ addr_dir_offset = 4

(***************************************************************************)
(* C14                                                                     *)
(***************************************************************************)
\* C14: the direction offset and the channel offset differ unless both are -1,
\* whatever set-offset control operations were made: a request that would make
\* them equal is refused.
C14_OffsetsDiffer ==
    addr_dir_offset = addr_ch_offset => addr_dir_offset = -1

(***************************************************************************)
(* C15                                                                     *)
(***************************************************************************)
\* the selectors a handler programmed, in order
Programmed(log) ==
    LET at == {i \in DOMAIN log : log[i].op = "set_address"}
        nth[k \in 0..Len(log)] ==
            IF k = 0 THEN <<>>
            ELSE IF k \in at THEN Append(nth[k - 1], log[k].val) ELSE nth[k - 1]
    IN nth[Len(log)]

\* C15: with valid, distinct offsets in 0..4 the selectors computed for Idle
\* and for TxChannel are distinct (a set_state(TxChannel) programs first the
\* one, then the other), and with both offsets -1 every selector computed, for
\* any state, is 0.
C15_Selectors ==
    last.op = "set_state" =>
        /\ (/\ addr_dir_offset \in 0..4
            /\ addr_ch_offset \in 0..4
            /\ addr_dir_offset # addr_ch_offset
            /\ last.arg = smi_stream_tx_channel
            /\ Len(Programmed(last.log)) = 2) =>
               Programmed(last.log)[1] # Programmed(last.log)[2]
        /\ (addr_dir_offset = -1 /\ addr_ch_offset = -1) =>
               \A i \in DOMAIN Programmed(last.log) : Programmed(last.log)[i] = 0

(***************************************************************************)
(* C16                                                                     *)
(***************************************************************************)
\* C16: when release returns the stream state is Idle and no cyclic transfer
\* is armed, whatever the state was and whatever the hardware answered during
\* the teardown.
C16_ReleaseLeavesIdle ==
    last.op = "release" =>
        /\ inst.state = smi_stream_idle
        /\ hw.dma = <<>>

(***************************************************************************)
(* C17                                                                     *)
(***************************************************************************)
\* C17: release terminates the cyclic transfer before it frees the rings, so
\* that no transfer is armed when it returns and no receive completion ever
\* runs on a ring whose memory has been freed.
C17_NoCallbackAfterFree ==
    [][/\ last'.op = "release" => hw'.dma = <<>>
       /\ last'.op = "rx_callback" => inst.fifo_mem = "live"]_vars

(***************************************************************************)
(* C18                                                                     *)
(***************************************************************************)
\* C18: an open issued while the device is already open does not create a
\* second session and does not replace or re-initialise the rings in use.
C18_SingleSession ==
    [][(last'.op = "open" /\ is_open) =>
         /\ handles' = handles
         /\ inst'.rx_fifo = inst.rx_fifo
         /\ inst'.tx_fifo = inst.tx_fifo
         /\ inst'.rx_fifo_buffer = inst.rx_fifo_buffer
         /\ inst'.tx_fifo_buffer = inst.tx_fifo_buffer]_vars

(***************************************************************************)
(* C19                                                                     *)
(***************************************************************************)
\* C19: when the cyclic descriptor cannot be submitted the call fails and the
\* peripheral is left disabled: ENABLE is clear on return and no refresh
\* (start) command was issued after the failed submission.
C19_SubmitFailureDisables ==
    (last.op = "set_state" /\ Has(last.log, "submit_failed")) =>
        /\ last.ret # 0
        /\ ~hw.enable
        /\ \A i, j \in DOMAIN last.log :
              (last.log[i].op = "submit_failed" /\ j > i) => last.log[j].op # "refresh"

(***************************************************************************)
(* C20                                                                     *)
(***************************************************************************)
\* C20: a set_state(TxChannel) interrupted while taking the TX fifo lock
\* returns -EINTR with the state lock released, so that a later set_state can
\* acquire it.
C20_InterruptedReleasesLock ==
    (last.op = "set_state" /\ last.ret = -EINTR) => ~inst.state_lock

(***************************************************************************)
(* C22                                                                     *)
(***************************************************************************)
\* the selector programmed last by the handler that ran
LastAddress(log) ==
    LET at == {i \in DOMAIN log : log[i].op = "set_address"}
    IN IF at = {} THEN -1 ELSE log[CHOOSE i \in at : \A j \in at : j <= i].val

\* C22: after a successful set_state(TxChannel) the selector programmed is the
\* transmit selector, the TX ring is empty, writeable is set, the readiness
\* waiters were woken and the call armed no cyclic transfer.
C22_TxSelected ==
    (last.op = "set_state" /\ last.arg = smi_stream_tx_channel /\ last.ret = 0) =>
        /\ LastAddress(last.log) = calc_address_from_state(
               smi_stream_tx_channel, addr_dir_offset, addr_ch_offset, 0)
        /\ hw.address = LastAddress(last.log)
        /\ kfifo_is_empty(inst.tx_fifo)
        /\ inst.writeable
        /\ Has(last.log, "wake_up")
        /\ ~Has(last.log, "issue")
        /\ ~Has(last.log, "programmed")
        /\ ~Has(last.log, "refresh")
        /\ hw.dma = <<>>

\* set_state(TxChannel) succeeded in a run that writes, where the TX ring can
\* hold data when the call is made
C22_Witness ==
    /\ role = "transmit"
    /\ last.op = "set_state"
    /\ last.arg = smi_stream_tx_channel
    /\ last.ret = 0
    /\ Has(last.log, "wake_up")
    /\ kfifo_is_empty(inst.tx_fifo)
    /\ ~inst.state_lock

(***************************************************************************)
(* C23                                                                     *)
(***************************************************************************)
\* C23: the first write that stores data after a successful
\* set_state(TxChannel) arms the transmit transfer (so that transmit
\* completions follow and data leaves the TX ring).
C23_FirstWriteArmsTransmit ==
    [][(/\ last.op = "set_state"
        /\ last.arg = smi_stream_tx_channel
        /\ last.ret = 0
        /\ last'.op = "write"
        /\ last'.ret > 0) =>
           /\ Has(last'.log, "issue")
           /\ hw'.dma # <<>>]_vars

(***************************************************************************)
(* C25                                                                     *)
(***************************************************************************)
\* C25: the count of the completion semaphore is bounded by a constant that
\* does not depend on how many chunks the hardware completes; here: it stays
\* below the number of completions a transfer is allowed.
C25_SemaphoreBounded == hw.callback_sem < MaxChunks

(***************************************************************************)
(* C29                                                                     *)
(***************************************************************************)
\* C29: a set_state(s) that returns 0 leaves the stream state at s, for every s.
C29_SuccessSetsState ==
    (last.op = "set_state" /\ last.ret = 0) => inst.state = last.arg

(***************************************************************************)
(* C30                                                                     *)
(***************************************************************************)
\* C30: between handlers the stream state is a receive channel exactly when a
\* cyclic receive transfer is armed.
C30_StateMatchesTransfer == (inst.state \in RxStates) <=> (hw.dma # <<>>)

(***************************************************************************)
(* C24                                                                     *)
(***************************************************************************)
\* both offsets name an address line and the two lines differ
ValidOffsets ==
    /\ addr_dir_offset \in 0..4
    /\ addr_ch_offset \in 0..4
    /\ addr_dir_offset # addr_ch_offset

\* the selector of a stream state under the current offsets
Selector(st) == calc_address_from_state(st, addr_dir_offset, addr_ch_offset, 0)

\* C24: under valid offsets (each in 0..4, distinct) the Idle selector differs
\* from the RxChannel0 and RxChannel1 selectors and these two differ from each
\* other; a receive channel that was armed has its own selector on the lines.
C24_SelectorsDistinct ==
    ValidOffsets =>
        /\ Selector(smi_stream_idle) # Selector(smi_stream_rx_channel_0)
        /\ Selector(smi_stream_idle) # Selector(smi_stream_rx_channel_1)
        /\ Selector(smi_stream_rx_channel_0) # Selector(smi_stream_rx_channel_1)
        /\ (last.op = "set_state" /\ last.ret = 0 /\ last.arg \in RxStates) =>
              /\ hw.address = Selector(last.arg)
              /\ hw.address # Selector(smi_stream_idle)
              /\ \A st \in RxStates \ {last.arg} : hw.address # Selector(st)

\* RxChannel1 armed with the direction on line 0 and the channel on line 4
C24_Witness ==
    /\ ValidOffsets
    /\ addr_dir_offset = 0
    /\ addr_ch_offset = 4
    /\ last.op = "set_state"
    /\ last.arg = smi_stream_rx_channel_1
    /\ last.ret = 0
    /\ hw.address = 17

(***************************************************************************)
(* C28                                                                     *)
(***************************************************************************)
\* the bounce-buffer slot the completion that ran last took its chunk from
SlotOf(log) == log[CHOOSE i \in DOMAIN log : log[i].op = "slot"].val

\* C28: a completion uses slot (chunk index mod 4); the next completion uses
\* the next slot modulo 4 and the fourth one after it the same slot, also when
\* the 32-bit chunk index wraps from 2^32 - 1 to 0.
C28_SlotPeriodic ==
    [][(last'.op = "rx_callback") =>
         LET c == inst.current_read_chunk
             n == inst'.current_read_chunk
         IN /\ SlotOf(last'.log) = buffer_slot(c)
            /\ SlotOf(last'.log) \in 0..3
            /\ n = Inc32(c)
            /\ buffer_slot(n) = (buffer_slot(c) + 1) % 4
            /\ buffer_slot(Inc32(Inc32(Inc32(n)))) = buffer_slot(c)]_vars

\* the completion whose chunk index was 2^32 - 1 used slot 3 and left index 0
C28_Witness ==
    /\ last.op = "rx_callback"
    /\ SlotOf(last.log) = 3
    /\ inst.current_read_chunk = 0
    /\ hw.callback_sem = 0

(***************************************************************************)
(* C21                                                                     *)
(***************************************************************************)
\* caller t is between taking the state lock and returning
Critical(t) == thr.pc[t] \in {"stop", "select", "arm"}

\* the steps of set_state that program the hardware or assign inst->state
Programming == {"set_state.stop", "set_state.select", "set_state.arm"}

\* C21: set_state calls are serialized by the state lock: a caller inside the
\* transition holds the lock, every programming step (stop, selector writes,
\* arm) is made by the holder while no other caller is inside the transition,
\* and inst->state changes only in a step of the holder.
C21_Serialized ==
    [][/\ \A t \in Callers :
             Critical(t)' => (inst'.state_lock /\ thr'.owner = t)
       /\ (last'.op \in Programming) =>
             /\ inst.state_lock
             /\ thr.owner = thr'.actor
             /\ \A u \in Callers \ {thr'.actor} : ~Critical(u)
       /\ (inst'.state # inst.state) =>
             /\ last'.op \in Programming
             /\ inst.state_lock
             /\ thr.owner = thr'.actor]_vars

\* caller 1 is about to arm a receive channel while caller 2 spins on the lock
C21_Witness ==
    /\ thr.pc[1] = "arm"
    /\ thr.pc[2] = "spin"
    /\ thr.arg[2] # thr.arg[1]
    /\ last.op = "set_state.select"
    /\ thr.owner = 1
    /\ inst.state_lock

(***************************************************************************)
(* C26                                                                     *)
(***************************************************************************)
\* C26: the completion callback never waits for a lock: a callback that has
\* started can always take its next step, and a teardown that holds the state
\* lock and waits for the running callback is never stuck (it can finish, or
\* the callback it waits for can).
C26_CallbackNeverBlocked ==
    /\ (thr.cb = "stored") => ENABLED CbNotify
    /\ (thr.cb = "idle" /\ hw.dma # <<>> /\ inst.current_read_chunk < MaxRaceChunks)
          => ENABLED CbStore
    /\ \A t \in Callers :
          (thr.pc[t] = "stop") => (ENABLED Stop(t) \/ ENABLED CbNotify)

\* a teardown holds the state lock and waits while a completion is running
C26_Witness ==
    /\ \E t \in Callers : thr.pc[t] = "stop" /\ thr.owner = t
    /\ inst.state_lock
    /\ thr.cb = "stored"
    /\ inst.state \in RxStates

(***************************************************************************)
(* C27                                                                     *)
(***************************************************************************)
\* a process sleeps in poll() unwoken, no completion is running, and the RX
\* ring holds data
LostWakeup ==
    /\ thr.poll = "sleep"
    /\ ~thr.triggered
    /\ thr.cb = "idle"
    /\ ~kfifo_is_empty(inst.rx_fifo)

\* C27: no lost wakeup: every receive completion sets readable and wakes the
\* waiters, poll is on the wait queue before it tests the ring, a poll that
\* finds the RX ring non-empty reports POLLIN, and a process is never left
\* asleep unwoken while the ring holds data.
C27_NoLostWakeup ==
    [][/\ ~LostWakeup'
       /\ (last'.op = "rx_callback.notify") =>
             /\ inst'.readable
             /\ Has(last'.log, "wake_up")
             /\ (thr.poll # "out") => thr'.triggered
       /\ (last'.op = "poll.test") =>
             /\ thr.poll = "queued"
             /\ (~kfifo_is_empty(inst.rx_fifo)) =>
                   (PollIn(last'.ret) /\ thr'.poll = "out")]_vars

\* a process that found the ring empty and slept was woken by a completion
\* that stored a chunk
C27_Witness ==
    /\ last.op = "rx_callback.notify"
    /\ thr.poll = "sleep"
    /\ thr.triggered
    /\ ~kfifo_is_empty(inst.rx_fifo)

====
